---- MODULE Spec2Model ----
(***************************************************************************)
(* Model of the MCP proxy (mcp_proxy_server/proxy_server.py) and of the    *)
(* LLM decision layer that drives it (src/simple_llm_proxy.py).            *)
(* Beside them: route_tool_call invocations that overlap; the HTTP proxy    *)
(* MCPProxy (src/mcp_proxy_server.py), one request and requests that       *)
(* overlap; DevAssistantAgent (dev_assistant_agent/agent.py); and          *)
(* LLMOrchestrator (src/llm_orchestrator_with_openai.py).                  *)
(*                                                                         *)
(* Strings are sequences of tokens: a backend id, a delimiter or a word of *)
(* a tool name is one token, so split / startswith / slicing / "in" are    *)
(* computed on the sequence as Python computes them on the characters.     *)
(***************************************************************************)
EXTENDS Integers, Sequences, FiniteSets, TLC

VARIABLES
    prefix_delimiter,   \* ROUTING_CONFIG["prefix_delimiter"]
    transport,          \* MCP_SERVER_CONFIGS[s]["transport"]
    ctor_raises,        \* servers whose StdioTransport/ProxyClient constructor raises
    clients,            \* MCPClientManager.clients (its keys)
    op,                 \* the proxy tool handler that is running, or "idle"
    pc,                 \* position inside the running handler
    req,                \* arguments of the running route_tool_call
    target_server,      \* local of route_tool_call
    actual_tool_name,   \* local of route_tool_call
    pending,            \* servers the for-loop of an aggregate has still to visit
    sessions,           \* open Client sessions: server -> last step completed in it
    agg,                \* all_tools / health_status["downstream_servers"]
    ret,                \* value returned by the handler
    forwarded,          \* what the backend received last: [server, tool, arguments]
    outcome,            \* how the backend answered the running route_tool_call
    orch,               \* SimpleLLMOrchestrator.process_user_request
    proxy_config_strategy,    \* PROXY_CONFIG["routing_strategy"]
    routing_config_strategy,  \* ROUTING_CONFIG["routing_strategy"], or "absent"
    calls,              \* overlapping route_tool_call invocations: their locals
    opened,             \* Client objects inside "async with": client -> invocations using its session
    created,            \* Client objects constructed so far
    mcp,                \* MCPProxy (src/mcp_proxy_server.py): the running proxy_request
    px,                 \* MCPProxy: its filesystem process, the pipe and the requests that overlap
    agent,              \* DevAssistantAgent (dev_assistant_agent/agent.py)
    llm                 \* LLMOrchestrator (src/llm_orchestrator_with_openai.py)

config == <<prefix_delimiter, transport, ctor_raises, clients,
            proxy_config_strategy, routing_config_strategy>>

\* the state of the programs that run beside the proxy tool handlers
concurrent == <<calls, opened, created>>
others == <<px, agent, llm>>
beside == <<concurrent, mcp, others>>

vars == <<prefix_delimiter, transport, ctor_raises, clients, op, pc, req,
          target_server, actual_tool_name, pending, sessions,
          agg, ret, forwarded, outcome, orch,
          proxy_config_strategy, routing_config_strategy,
          calls, opened, created, mcp, px, agent, llm>>

\* the state of the proxy tool handlers
handlers == <<op, pc, req, target_server, actual_tool_name, pending, sessions,
              agg, ret, forwarded, outcome, orch>>

----------------------------------------------------------------------------
\* Bounds of the model

MaxNameLen == 3          \* tokens in a requested tool name
MaxMisconfigured == 1    \* servers that are not stdio or whose client constructor raises
MaxCallers == 2          \* route_tool_call invocations in flight at once
MaxClients == 3          \* Client objects the overlapping invocations construct
MaxPathLen == 4          \* tokens in a request path of MCPProxy
MaxRequests == 2         \* requests of MCPProxy in flight at once
MaxLaunches == 2         \* launches of the filesystem server that are followed

----------------------------------------------------------------------------
\* Strings

Tokens == {"github", "filesystem", "list", "_", "-"}

Names == UNION {[1..n -> Tokens] : n \in 0..MaxNameLen}

StartsWith(s, p) ==
    /\ Len(p) <= Len(s)
    /\ SubSeq(s, 1, Len(p)) = p

\* s[n:]
DropFirst(s, n) == SubSeq(s, n + 1, Len(s))

\* positions where t occurs in s
Occurrences(s, t) ==
    {i \in 1..(Len(s) - Len(t) + 1) : SubSeq(s, i, i + Len(t) - 1) = t}

\* t in s
Contains(s, t) == Len(t) = 0 \/ Occurrences(s, t) # {}

Min(S) == CHOOSE x \in S : \A y \in S : x <= y

\* s.split(d)[0]
SplitFirst(s, d) ==
    IF Occurrences(s, d) = {} THEN s
    ELSE SubSeq(s, 1, Min(Occurrences(s, d)) - 1)

\* s.split(d)[1], for s that contains d
SplitSecond(s, d) ==
    LET rest == DropFirst(s, Min(Occurrences(s, d)) + Len(d) - 1)
    IN  SplitFirst(rest, d)

----------------------------------------------------------------------------
\* Configuration (config.py)

Servers == {"github", "filesystem", "atlassian"}

\* iteration order of the MCP_SERVER_CONFIGS dict
ServerOrder == <<"github", "filesystem", "atlassian">>

Delimiters == {<<"_">>, <<"-">>}

Transports == {"stdio", "http"}

\* PROXY_CONFIG.get("default_server", "filesystem")
default_server == "filesystem"

header_name == "X-Target-MCP"

Get(cfg, key, default) == IF key \in DOMAIN cfg THEN cfg[key] ELSE default

Strategies == {"prefix", "header"}

PROXY_CONFIG ==
    [routing_strategy |-> proxy_config_strategy,
     default_server |-> default_server]

ROUTING_CONFIG ==
    IF routing_config_strategy = "absent"
    THEN [prefix_delimiter |-> prefix_delimiter,
          header_name |-> header_name,
          path_prefix |-> "/mcp"]
    ELSE [prefix_delimiter |-> prefix_delimiter,
          header_name |-> header_name,
          path_prefix |-> "/mcp",
          routing_strategy |-> routing_config_strategy]

\* the text of a server id
Str(s) == <<s>>

IsServerId(str) == \E s \in Servers : str = Str(s)

ServerOf(str) == CHOOSE s \in Servers : str = Str(s)

NoServer == "none"

----------------------------------------------------------------------------
\* MCPProxyRouter

Router_strategy == Get(ROUTING_CONFIG, "routing_strategy", "prefix")

Router_delimiter == Get(ROUTING_CONFIG, "prefix_delimiter", <<"_">>)

\* headers: [none |-> BOOLEAN, items |-> set of <<name, value>>]
HeaderGet(headers, name) ==
    IF \E kv \in headers.items : kv[1] = name
    THEN (CHOOSE kv \in headers.items : kv[1] = name)[2]
    ELSE <<>>

route_by_prefix_router(tool_name) ==
    IF Contains(tool_name, Router_delimiter)
    THEN LET prefix == SplitFirst(tool_name, Router_delimiter)
         IN  IF IsServerId(prefix) THEN ServerOf(prefix) ELSE default_server
    ELSE default_server

\* a header strategy that takes the hint as it comes
route_by_header_unchecked(headers) ==
    IF ~headers.none /\ headers.items # {}
    THEN LET target == HeaderGet(headers, Get(ROUTING_CONFIG, "header_name", "X-Target-MCP"))
         IN  IF target # <<>> THEN target[1] ELSE default_server
    ELSE default_server

route_by_header(headers) ==
    IF ~headers.none /\ headers.items # {}
    THEN LET target == HeaderGet(headers, Get(ROUTING_CONFIG, "header_name", "X-Target-MCP"))
         IN  IF target # <<>> /\ IsServerId(target) THEN ServerOf(target)
             ELSE default_server
    ELSE default_server

Router_route_tool_call(tool_name, headers) ==
    IF Router_strategy = "prefix" THEN route_by_prefix_router(tool_name)
    ELSE IF Router_strategy = "header" THEN route_by_header(headers)
    ELSE default_server

----------------------------------------------------------------------------
\* MCPClientManager

initialize_clients(tr, raises) ==
    {s \in Servers : tr[s] = "stdio" /\ s \notin raises}

get_client(server_name) == server_name \in clients

\* list(self.clients.keys()): the configured order, without the servers left out
RECURSIVE Filter(_, _)
Filter(seq, S) ==
    IF seq = <<>> THEN <<>>
    ELSE IF Head(seq) \in S THEN <<Head(seq)>> \o Filter(Tail(seq), S)
    ELSE Filter(Tail(seq), S)

list_servers == Filter(ServerOrder, clients)

----------------------------------------------------------------------------
\* Values shared by the handlers

NoResult == [none |-> TRUE]

NoRequest == [tool_name |-> <<>>, arguments |-> "None", headers |-> [none |-> TRUE, items |-> {}]]

NoForward == [server |-> NoServer, tool |-> <<>>, arguments |-> "None"]

EmptyMap == [s \in {} |-> NoResult]

\* the marks the status texts carry
CheckMark == "(check mark)"
CrossMark == "(cross mark)"
WarnMark == "(warning sign)"

\* str(e) of the exceptions a backend session can raise
ErrMsgs == {<<"timed out">>, <<CheckMark, " done">>}

\* the exception raised while calling a tool: how it arose, and its text
CallErrors ==
    [kind : {"launch_error", "transport_error", "tool_error"}, msg : {<<"timed out">>}]

\* tool lists a backend can advertise
ToolLists == {<<>>, <<(<<"list">>)>>, <<(<<"search">>), (<<"list">>)>>}

ArgInputs == {"None", "{path}"}

HeaderInputs ==
    {[none |-> TRUE, items |-> {}],
     [none |-> FALSE, items |-> {}],
     [none |-> FALSE, items |-> {<<"X-Other", <<"github">> >>}],
     [none |-> FALSE, items |-> {<<header_name, <<"github">> >>}],
     [none |-> FALSE, items |-> {<<header_name, <<"nosuch">> >>}]}

\* arguments or {}
OrEmpty(arguments) == IF arguments \in {"None", "{}"} THEN "{}" ELSE arguments

Put(map, key, value) ==
    [k \in DOMAIN map \cup {key} |-> IF k = key THEN value ELSE map[k]]

Remove(map, key) == [k \in DOMAIN map \ {key} |-> map[k]]

\* an exit of "async with" that closes the session only when the body did not raise
ExitAsyncWith_whenNotRaised(s, raised) ==
    IF raised THEN sessions ELSE Remove(sessions, s)

\* the exit of "async with client:" (Client.__aexit__), reached when the body
\* ends and when it raises: the session of s is closed
ExitAsyncWith(s, raised) == Remove(sessions, s)

\* no await of the handlers carries a timeout: a backend that stops answering
\* inside an open session leaves the await on it pending for good
Backend_NeverAnswers(s) ==
    /\ s \in DOMAIN sessions
    /\ sessions[s] # "no_answer"
    /\ sessions' = Put(sessions, s, "no_answer")
    /\ UNCHANGED <<config, beside, op, pc, req, target_server, actual_tool_name,
                   pending, agg, ret, forwarded, outcome, orch>>

----------------------------------------------------------------------------
\* route_tool_call

\* the tool name sent to the downstream server
StripServerPrefix(tool_name, target) ==
    IF StartsWith(tool_name, <<target, "_">>)
    THEN DropFirst(tool_name, Len(<<target, "_">>))
    ELSE tool_name

NoClientResult(target) ==
    [error |-> <<"No client available for server: ", target>>,
     available_servers |-> list_servers]

SuccessResult(target, tool, result) ==
    [server |-> target, tool |-> tool, result |-> result]

\* an except block that lets the error reported by the tool pass through
ExceptResult_propagates(tool_name, target, e) ==
    IF e.kind = "tool_error" THEN [raised |-> e.msg]
    ELSE [error |-> <<"Error calling tool '">> \o tool_name
                      \o <<"' on server '", target, "': ">> \o e.msg,
          server |-> target,
          tool |-> tool_name]

\* the except block: the exception becomes the returned value
ExceptResult(tool_name, target, e) ==
    [error |-> <<"Error calling tool '">> \o tool_name
                 \o <<"' on server '", target, "': ">> \o e.msg,
     server |-> target,
     tool |-> tool_name]

RouteToolCall_Enter(tool_name, arguments, headers) ==
    LET target == Router_route_tool_call(tool_name, headers)
    IN  /\ op' = "route_tool_call"
        /\ req' = [tool_name |-> tool_name, arguments |-> arguments, headers |-> headers]
        /\ target_server' = target
        /\ IF ~get_client(target)
           THEN /\ ret' = NoClientResult(target)
                /\ pc' = "done"
                /\ outcome' = "no_client"
                /\ actual_tool_name' = <<>>
           ELSE /\ ret' = NoResult
                /\ pc' = "connect"
                /\ outcome' = "none"
                /\ actual_tool_name' = StripServerPrefix(tool_name, target)
        /\ forwarded' = NoForward

\* a client calls the route_tool_call tool of the proxy
RouteToolCall_Begin ==
    /\ op = "idle"
    /\ orch.pc = "idle"
    /\ \E tool_name \in Names, arguments \in ArgInputs, headers \in HeaderInputs :
          RouteToolCall_Enter(tool_name, arguments, headers)
    /\ UNCHANGED <<config, beside, pending, sessions, agg, orch>>

\* async with actual_client: the backend is launched and the handshake made
RouteToolCall_Connect ==
    /\ op = "route_tool_call"
    /\ pc = "connect"
    /\ target_server \notin DOMAIN sessions
    /\ \/ /\ sessions' = Put(sessions, target_server, "opened")
          /\ pc' = "call"
          /\ ret' = ret
          /\ outcome' = outcome
       \/ \* the backend never answers the handshake
          /\ sessions' = Put(sessions, target_server, "no_answer")
          /\ UNCHANGED <<pc, ret, outcome>>
       \/ \E e \in {x \in CallErrors : x.kind = "launch_error"} :
            /\ ret' = ExceptResult(req.tool_name, target_server, e)
            /\ pc' = "done"
            /\ outcome' = e.kind
            /\ sessions' = sessions
    /\ UNCHANGED <<config, beside, op, req,
                   target_server, actual_tool_name, pending, agg, forwarded, orch>>

\* await actual_client.call_tool(...), and the exit of the async with
RouteToolCall_Call ==
    /\ op = "route_tool_call"
    /\ pc = "call"
    /\ target_server \in DOMAIN sessions
    /\ sessions[target_server] = "opened"
    /\ forwarded' = [server |-> target_server, tool |-> actual_tool_name,
                     arguments |-> OrEmpty(req.arguments)]
    /\ \/ /\ ret' = SuccessResult(target_server, actual_tool_name, "payload")
          /\ outcome' = "ok"
          /\ sessions' = ExitAsyncWith(target_server, FALSE)
       \/ \E e \in {x \in CallErrors : x.kind # "launch_error"} :
            /\ ret' = ExceptResult(req.tool_name, target_server, e)
            /\ outcome' = e.kind
            /\ sessions' = ExitAsyncWith(target_server, TRUE)
    /\ pc' = "done"
    /\ UNCHANGED <<config, beside, op, req,
                   target_server, actual_tool_name, pending, agg, orch>>

----------------------------------------------------------------------------
\* route_by_prefix

\* f"{tool_prefix}_{tool_suffix}"
full_tool_name(tool_prefix, tool_suffix) == tool_prefix \o <<"_">> \o tool_suffix

\* the prefixes and suffixes a client passes: the composed name has at most
\* MaxNameLen tokens
PrefixSuffixInputs ==
    {ps \in Names \X Names : Len(ps[1]) + Len(ps[2]) + 1 <= MaxNameLen}

RouteByPrefix_NoClientResult(full, target) ==
    [error |-> <<"No client available for server: ", target>>,
     tool_name |-> full,
     routed_to |-> target]

RouteByPrefix_ExceptResult(full, target, e) ==
    [error |-> <<"Error calling tool '">> \o full
                 \o <<"' on server '", target, "': ">> \o e.msg,
     server |-> target,
     tool |-> full]

\* a client calls the route_by_prefix tool of the proxy
RouteByPrefix_Begin ==
    /\ op = "idle"
    /\ orch.pc = "idle"
    /\ \E ps \in PrefixSuffixInputs, arguments \in ArgInputs :
          LET full == full_tool_name(ps[1], ps[2])
              target == Router_route_tool_call(full, [none |-> TRUE, items |-> {}])
          IN  /\ op' = "route_by_prefix"
              /\ req' = [tool_name |-> full, arguments |-> arguments,
                         headers |-> [none |-> TRUE, items |-> {}],
                         tool_prefix |-> ps[1], tool_suffix |-> ps[2]]
              /\ target_server' = target
              /\ actual_tool_name' = <<>>
              /\ IF ~get_client(target)
                 THEN /\ ret' = RouteByPrefix_NoClientResult(full, target)
                      /\ pc' = "done"
                      /\ outcome' = "no_client"
                 ELSE /\ ret' = NoResult
                      /\ pc' = "connect"
                      /\ outcome' = "none"
              /\ forwarded' = NoForward
    /\ UNCHANGED <<config, beside, pending, sessions, agg, orch>>

\* async with actual_client: the backend is launched and the handshake made
RouteByPrefix_Connect ==
    /\ op = "route_by_prefix"
    /\ pc = "connect"
    /\ target_server \notin DOMAIN sessions
    /\ \/ /\ sessions' = Put(sessions, target_server, "opened")
          /\ pc' = "call"
          /\ ret' = ret
          /\ outcome' = outcome
       \/ \* the backend never answers the handshake
          /\ sessions' = Put(sessions, target_server, "no_answer")
          /\ UNCHANGED <<pc, ret, outcome>>
       \/ \E e \in {x \in CallErrors : x.kind = "launch_error"} :
            /\ ret' = RouteByPrefix_ExceptResult(req.tool_name, target_server, e)
            /\ pc' = "done"
            /\ outcome' = e.kind
            /\ sessions' = sessions
    /\ UNCHANGED <<config, beside, op, req,
                   target_server, actual_tool_name, pending, agg, forwarded, orch>>

\* await actual_client.call_tool(full_tool_name, ...), and the exit of the async with
RouteByPrefix_Call ==
    /\ op = "route_by_prefix"
    /\ pc = "call"
    /\ target_server \in DOMAIN sessions
    /\ sessions[target_server] = "opened"
    /\ forwarded' = [server |-> target_server, tool |-> req.tool_name,
                     arguments |-> OrEmpty(req.arguments)]
    /\ \/ /\ ret' = SuccessResult(target_server, req.tool_name, "payload")
          /\ outcome' = "ok"
          /\ sessions' = ExitAsyncWith(target_server, FALSE)
       \/ \E e \in {x \in CallErrors : x.kind # "launch_error"} :
            /\ ret' = RouteByPrefix_ExceptResult(req.tool_name, target_server, e)
            /\ outcome' = e.kind
            /\ sessions' = ExitAsyncWith(target_server, TRUE)
    /\ pc' = "done"
    /\ UNCHANGED <<config, beside, op, req,
                   target_server, actual_tool_name, pending, agg, orch>>

----------------------------------------------------------------------------
\* The return of a tool handler

\* the value goes back to the client that called the tool
Handler_Return ==
    /\ op # "idle"
    /\ pc = "done"
    /\ orch.pc = "idle"
    /\ op' = "idle"
    /\ pc' = "idle"
    /\ req' = NoRequest
    /\ target_server' = NoServer
    /\ actual_tool_name' = <<>>
    /\ pending' = <<>>
    /\ agg' = EmptyMap
    /\ ret' = NoResult
    /\ forwarded' = NoForward
    /\ outcome' = "none"
    /\ UNCHANGED <<config, beside, sessions, orch>>

----------------------------------------------------------------------------
\* The for-loops of the aggregate handlers

\* the servers whose iteration has begun
Visited == {s \in clients : \A i \in 1..Len(pending) : pending[i] # s}

\* an iteration has begun and has not stored its entry yet
BodyRunning == \E s \in Visited : s \notin DOMAIN agg

\* a loop that starts every iteration at once (asyncio.gather over the servers)
LoopMayStart_gather(s) == \E i \in 1..Len(pending) : pending[i] = s

\* "for server_name in ...: try: async with ...: await ..." : the body of one
\* iteration is awaited to its end before the next iteration begins
LoopMayStart(s) ==
    /\ pending # <<>>
    /\ Head(pending) = s
    /\ ~BodyRunning

Without(seq, s) == SelectSeq(seq, LAMBDA x : x # s)

Aggregate_Enter(name, servers) ==
    /\ op' = name
    /\ pc' = "loop"
    /\ pending' = servers
    /\ agg' = EmptyMap
    /\ ret' = NoResult
    /\ req' = NoRequest
    /\ target_server' = NoServer
    /\ actual_tool_name' = <<>>
    /\ forwarded' = NoForward
    /\ outcome' = "none"
    /\ UNCHANGED <<config, beside, sessions>>

----------------------------------------------------------------------------
\* list_all_tools

ToolsEntry(tools) == [list |-> TRUE, v |-> tools]

\* f"Error: {str(e)}"
ErrorEntry(e) == [list |-> FALSE, v |-> <<"E", "rror: ">> \o e]

\* a client calls the list_all_tools tool of the proxy
ListAllTools_Begin ==
    /\ op = "idle"
    /\ orch.pc = "idle"
    /\ Aggregate_Enter("list_all_tools", Filter(ServerOrder, clients))
    /\ UNCHANGED orch

\* async with actual_client, for the next server of the loop
ListAllTools_Open(s) ==
    /\ op = "list_all_tools"
    /\ pc = "loop"
    /\ LoopMayStart(s)
    /\ pending' = Without(pending, s)
    /\ \/ /\ sessions' = Put(sessions, s, "opened")
          /\ agg' = agg
       \/ \* the backend never answers the handshake
          /\ sessions' = Put(sessions, s, "no_answer")
          /\ agg' = agg
       \/ \E e \in ErrMsgs :
            /\ agg' = Put(agg, s, ErrorEntry(e))
            /\ sessions' = sessions
    /\ UNCHANGED <<config, beside, outcome, op, pc, req,
                   target_server, actual_tool_name, ret, forwarded, orch>>

\* await actual_client.list_tools(), and the exit of the async with
ListAllTools_List(s) ==
    /\ op = "list_all_tools"
    /\ pc = "loop"
    /\ s \in DOMAIN sessions
    /\ sessions[s] = "opened"
    /\ \/ /\ \E tools \in ToolLists : agg' = Put(agg, s, ToolsEntry(tools))
          /\ sessions' = ExitAsyncWith(s, FALSE)
       \/ /\ \E e \in ErrMsgs : agg' = Put(agg, s, ErrorEntry(e))
          /\ sessions' = ExitAsyncWith(s, TRUE)
    /\ UNCHANGED <<config, beside, outcome, op, pc, req,
                   target_server, actual_tool_name, pending, ret, forwarded, orch>>

\* return all_tools
ListAllTools_Finish ==
    /\ op = "list_all_tools"
    /\ pc = "loop"
    /\ pending = <<>>
    /\ ~BodyRunning
    /\ ret' = agg
    /\ pc' = "done"
    /\ UNCHANGED <<config, beside, outcome, op, req,
                   target_server, actual_tool_name, pending, sessions, agg,
                   forwarded, orch>>

----------------------------------------------------------------------------
\* health_check

HealthyEntry(s, tools) ==
    [status |-> <<CheckMark, " Healthy">>,
     response_time_ms |-> "ms",
     tools_count |-> Len(tools),
     transport |-> transport[s]]

UnhealthyEntry(s, e) ==
    [status |-> <<CrossMark, " Unhealthy: ">> \o e,
     response_time_ms |-> "None",
     tools_count |-> 0,
     transport |-> transport[s]]

\* round(x, 1) of healthy / total * 100, in tenths of a percent
Percentage(healthy, total) == (2000 * healthy + total) \div (2 * total)

Summary(downstream) ==
    LET healthy_servers ==
            Cardinality({s \in DOMAIN downstream :
                            Contains(downstream[s].status, <<CheckMark>>)})
        total_servers == Cardinality(DOMAIN downstream)
    IN  [healthy_servers |-> healthy_servers,
         total_servers |-> total_servers,
         health_percentage |->
             IF total_servers > 0 THEN Percentage(healthy_servers, total_servers) ELSE 0,
         overall_status |->
             IF healthy_servers = total_servers THEN <<CheckMark, " Healthy">>
             ELSE IF healthy_servers > 0 THEN <<WarnMark, " Partial">>
             ELSE <<CrossMark, " Unhealthy">>]

\* a client calls the health_check tool of the proxy
HealthCheck_Begin ==
    /\ op = "idle"
    /\ orch.pc = "idle"
    /\ Aggregate_Enter("health_check", list_servers)
    /\ UNCHANGED orch

\* async with client, for the next server of the loop
HealthCheck_Open(s) ==
    /\ op = "health_check"
    /\ pc = "loop"
    /\ LoopMayStart(s)
    /\ pending' = Without(pending, s)
    /\ \/ /\ sessions' = Put(sessions, s, "opened")
          /\ agg' = agg
       \/ \* the backend never answers the handshake
          /\ sessions' = Put(sessions, s, "no_answer")
          /\ agg' = agg
       \/ \E e \in ErrMsgs :
            /\ agg' = Put(agg, s, UnhealthyEntry(s, e))
            /\ sessions' = sessions
    /\ UNCHANGED <<config, beside, outcome, op, pc, req,
                   target_server, actual_tool_name, ret, forwarded, orch>>

\* await client.ping()
HealthCheck_Ping(s) ==
    /\ op = "health_check"
    /\ pc = "loop"
    /\ s \in DOMAIN sessions
    /\ sessions[s] = "opened"
    /\ \/ /\ sessions' = Put(sessions, s, "pinged")
          /\ agg' = agg
       \/ \E e \in ErrMsgs :
            /\ agg' = Put(agg, s, UnhealthyEntry(s, e))
            /\ sessions' = ExitAsyncWith(s, TRUE)
    /\ UNCHANGED <<config, beside, outcome, op, pc, req,
                   target_server, actual_tool_name, pending, ret, forwarded, orch>>

\* tools = await client.list_tools(), and the exit of the async with
HealthCheck_List(s) ==
    /\ op = "health_check"
    /\ pc = "loop"
    /\ s \in DOMAIN sessions
    /\ sessions[s] = "pinged"
    /\ \/ /\ \E tools \in ToolLists : agg' = Put(agg, s, HealthyEntry(s, tools))
          /\ sessions' = ExitAsyncWith(s, FALSE)
       \/ /\ \E e \in ErrMsgs : agg' = Put(agg, s, UnhealthyEntry(s, e))
          /\ sessions' = ExitAsyncWith(s, TRUE)
    /\ UNCHANGED <<config, beside, outcome, op, pc, req,
                   target_server, actual_tool_name, pending, ret, forwarded, orch>>

\* the summary is computed and health_status returned
HealthCheck_Finish ==
    /\ op = "health_check"
    /\ pc = "loop"
    /\ pending = <<>>
    /\ ~BodyRunning
    /\ ret' = [proxy_server |-> [status |-> <<CheckMark, " Running">>,
                                 routing_strategy |-> Router_strategy],
               downstream_servers |-> agg,
               summary |-> Summary(agg)]
    /\ pc' = "done"
    /\ UNCHANGED <<config, beside, outcome, op, req,
                   target_server, actual_tool_name, pending, sessions, agg,
                   forwarded, orch>>

----------------------------------------------------------------------------
\* get_server_status

ConnectedEntry == <<CheckMark, " Connected">>

StatusErrorEntry(e) == <<CrossMark, " Error: ">> \o e

\* a client calls the get_server_status tool of the proxy
GetServerStatus_Begin ==
    /\ op = "idle"
    /\ orch.pc = "idle"
    /\ Aggregate_Enter("get_server_status", list_servers)
    /\ UNCHANGED orch

\* async with client, for the next server of the loop
GetServerStatus_Open(s) ==
    /\ op = "get_server_status"
    /\ pc = "loop"
    /\ LoopMayStart(s)
    /\ pending' = Without(pending, s)
    /\ \/ /\ sessions' = Put(sessions, s, "opened")
          /\ agg' = agg
       \/ \* the backend never answers the handshake
          /\ sessions' = Put(sessions, s, "no_answer")
          /\ agg' = agg
       \/ \E e \in ErrMsgs :
            /\ agg' = Put(agg, s, StatusErrorEntry(e))
            /\ sessions' = sessions
    /\ UNCHANGED <<config, beside, outcome, op, pc, req,
                   target_server, actual_tool_name, ret, forwarded, orch>>

\* await client.ping(), and the exit of the async with
GetServerStatus_Ping(s) ==
    /\ op = "get_server_status"
    /\ pc = "loop"
    /\ s \in DOMAIN sessions
    /\ sessions[s] = "opened"
    /\ \/ /\ agg' = Put(agg, s, ConnectedEntry)
          /\ sessions' = ExitAsyncWith(s, FALSE)
       \/ /\ \E e \in ErrMsgs : agg' = Put(agg, s, StatusErrorEntry(e))
          /\ sessions' = ExitAsyncWith(s, TRUE)
    /\ UNCHANGED <<config, beside, outcome, op, pc, req,
                   target_server, actual_tool_name, pending, ret, forwarded, orch>>

\* return status
GetServerStatus_Finish ==
    /\ op = "get_server_status"
    /\ pc = "loop"
    /\ pending = <<>>
    /\ ~BodyRunning
    /\ ret' = agg
    /\ pc' = "done"
    /\ UNCHANGED <<config, beside, outcome, op, req,
                   target_server, actual_tool_name, pending, sessions, agg,
                   forwarded, orch>>

----------------------------------------------------------------------------
\* get_methods

MethodsEntry(tools) ==
    [methods |-> tools, count |-> Len(tools), status |-> <<CheckMark, " Available">>]

MethodsErrorEntry(e) ==
    [methods |-> <<>>, count |-> 0, status |-> <<CrossMark, " Error: ">> \o e]

RECURSIVE SumCounts(_, _)
SumCounts(entries, S) ==
    IF S = {} THEN 0
    ELSE LET s == CHOOSE x \in S : TRUE
         IN  entries[s].count + SumCounts(entries, S \ {s})

\* a client calls the get_methods tool of the proxy
GetMethods_Begin ==
    /\ op = "idle"
    /\ orch.pc = "idle"
    /\ Aggregate_Enter("get_methods", list_servers)
    /\ UNCHANGED orch

\* async with client, for the next server of the loop
GetMethods_Open(s) ==
    /\ op = "get_methods"
    /\ pc = "loop"
    /\ LoopMayStart(s)
    /\ pending' = Without(pending, s)
    /\ \/ /\ sessions' = Put(sessions, s, "opened")
          /\ agg' = agg
       \/ \* the backend never answers the handshake
          /\ sessions' = Put(sessions, s, "no_answer")
          /\ agg' = agg
       \/ \E e \in ErrMsgs :
            /\ agg' = Put(agg, s, MethodsErrorEntry(e))
            /\ sessions' = sessions
    /\ UNCHANGED <<config, beside, outcome, op, pc, req,
                   target_server, actual_tool_name, ret, forwarded, orch>>

\* tools = await client.list_tools(), and the exit of the async with
GetMethods_List(s) ==
    /\ op = "get_methods"
    /\ pc = "loop"
    /\ s \in DOMAIN sessions
    /\ sessions[s] = "opened"
    /\ \/ /\ \E tools \in ToolLists : agg' = Put(agg, s, MethodsEntry(tools))
          /\ sessions' = ExitAsyncWith(s, FALSE)
       \/ /\ \E e \in ErrMsgs : agg' = Put(agg, s, MethodsErrorEntry(e))
          /\ sessions' = ExitAsyncWith(s, TRUE)
    /\ UNCHANGED <<config, beside, outcome, op, pc, req,
                   target_server, actual_tool_name, pending, ret, forwarded, orch>>

\* the totals are computed and the aggregate returned
GetMethods_Finish ==
    /\ op = "get_methods"
    /\ pc = "loop"
    /\ pending = <<>>
    /\ ~BodyRunning
    /\ ret' = [servers |-> agg,
               total_servers |-> Cardinality(DOMAIN agg),
               total_methods |-> SumCounts(agg, DOMAIN agg)]
    /\ pc' = "done"
    /\ UNCHANGED <<config, beside, outcome, op, req,
                   target_server, actual_tool_name, pending, sessions, agg,
                   forwarded, orch>>

----------------------------------------------------------------------------
\* SimpleLLMOrchestrator (src/simple_llm_proxy.py)

\* a decision: the keys the JSON object has, and their values
Decision(keys, server, tool, arguments) ==
    [keys |-> keys, server |-> server, tool |-> tool, arguments |-> arguments]

NoDecision == Decision({}, <<>>, <<>>, "None")

\* llm_decision.get(key, default)
DGet(d, key, default) == IF key \in d.keys THEN d[key] ELSE default

\* the hard-coded decision returned when the reply cannot be used
HardcodedDecision ==
    Decision({"server", "tool", "arguments"},
             <<"filesystem">>, <<"list", "_", "directory">>, "{path}")

\* what the completion service can answer
ReplyServers == {<<"github">>, <<"nosuch">>}
ReplyTools == {<<"list">>, <<"bogus">>, <<"GITHUB", " ", "SERVER_", "list">>}

ReplyObjects ==
    {Decision(ks, IF "server" \in ks THEN sv ELSE <<>>,
                  IF "tool" \in ks THEN tl ELSE <<>>,
                  IF "arguments" \in ks THEN "{path}" ELSE "None") :
        ks \in SUBSET {"server", "tool", "arguments"},
        sv \in ReplyServers, tl \in ReplyTools}

Replies ==
    {[kind |-> k, obj |-> NoDecision] : k \in {"exception", "not_json", "json_list"}}
    \cup {[kind |-> "object", obj |-> d] : d \in ReplyObjects}

NoReply == [kind |-> "none", obj |-> NoDecision]

\* tool_name in available_tools, for a list of names and for an error text
InTools(tool, entry) ==
    IF entry.list THEN \E i \in 1..Len(entry.v) : entry.v[i] = tool
    ELSE Contains(entry.v, tool)

\* available_tools[0]
FirstOf(entry) == IF entry.list THEN entry.v[1] ELSE <<entry.v[1]>>

\* lines 226-238: a tool name that carries " SERVER_" keeps what follows it
CleanToolName(tool) ==
    IF Contains(tool, <<" ", "SERVER_">>) THEN SplitSecond(tool, <<"SERVER_">>)
    ELSE tool

\* lines 240-249: the check of the decision against the catalog
ValidateDecision(d, all_tools) ==
    LET tool_name == CleanToolName(d.tool)
        server_name == DGet(d, "server", <<>>)
        cleaned == [d EXCEPT !.tool = tool_name]
    IN  IF "tool" \notin d.keys THEN d
        ELSE IF server_name # <<>> /\ IsServerId(server_name)
                   /\ ServerOf(server_name) \in DOMAIN all_tools
        THEN LET available_tools == all_tools[ServerOf(server_name)]
             IN  IF ~InTools(tool_name, available_tools) /\ Len(available_tools.v) > 0
                 THEN [cleaned EXCEPT !.tool = FirstOf(available_tools)]
                 ELSE cleaned
        ELSE cleaned

\* ask_llm_to_choose_server_and_tool: [dict |-> the value is a JSON object, d |-> it]
ask_llm_to_choose_server_and_tool(all_tools, reply) ==
    IF reply.kind \in {"exception", "not_json"}
    THEN [dict |-> TRUE, d |-> HardcodedDecision]
    ELSE IF reply.kind = "json_list" THEN [dict |-> FALSE, d |-> NoDecision]
    ELSE [dict |-> TRUE, d |-> ValidateDecision(reply.obj, all_tools)]

\* f"{server_name}_{tool_name}"
FullToolName(server_name, tool_name) == server_name \o <<"_">> \o tool_name

OrchIdle ==
    [pc |-> "idle", all_tools |-> EmptyMap, reply |-> NoReply,
     decision |-> NoDecision, llm_calls |-> 0, result |-> NoResult]

\* process_user_request up to "await self.get_all_tools()"
Orch_Begin ==
    /\ orch.pc = "idle"
    /\ op = "idle"
    /\ \/ /\ Aggregate_Enter("list_all_tools", Filter(ServerOrder, clients))
          /\ orch' = [orch EXCEPT !.pc = "get_all_tools"]
       \/ \* the proxy cannot be reached: get_all_tools returns {"error": ...}
          /\ orch' = [orch EXCEPT !.pc = "done",
                        !.result = [error |-> <<"Failed to get tools: ", "timed out">>]]
          /\ UNCHANGED <<config, beside, outcome, op, pc,
                         req, target_server, actual_tool_name, pending, sessions,
                         agg, ret, forwarded>>

\* from the return of get_all_tools to "await self.call_tool(...)"
Orch_Decide ==
    /\ orch.pc = "get_all_tools"
    /\ op = "list_all_tools"
    /\ pc = "done"
    /\ \E reply \in Replies :
        LET all_tools == ret
            answer == ask_llm_to_choose_server_and_tool(all_tools, reply)
            llm_decision == answer.d
            server_name == DGet(llm_decision, "server", <<>>)
            tool_name == DGet(llm_decision, "tool", <<>>)
            arguments == DGet(llm_decision, "arguments", "{}")
            asked == [orch EXCEPT !.all_tools = all_tools, !.llm_calls = @ + 1,
                                  !.decision = llm_decision,
                                  !.reply = reply]
            idle == /\ op' = "idle"
                    /\ pc' = "idle"
                    /\ ret' = NoResult
                    /\ agg' = EmptyMap
                    /\ UNCHANGED <<config, beside, outcome, req, target_server, actual_tool_name, pending,
                                   sessions, forwarded>>
        IN  IF ~answer.dict
            THEN \* llm_decision.get raises, the outer except returns the error
                 /\ orch' = [asked EXCEPT !.pc = "done",
                               !.result = [error |-> <<"Failed to process request: ">>]]
                 /\ idle
            ELSE IF server_name = <<>> \/ tool_name = <<>>
            THEN /\ orch' = [asked EXCEPT !.pc = "done",
                               !.result = [error |-> <<"LLM failed to choose server or tool">>]]
                 /\ idle
            ELSE \/ /\ orch' = [asked EXCEPT !.pc = "call_tool"]
                    /\ RouteToolCall_Enter(FullToolName(server_name, tool_name),
                                           OrEmpty(arguments),
                                           [none |-> TRUE, items |-> {}])
                    /\ pending' = <<>>
                    /\ agg' = EmptyMap
                    /\ UNCHANGED <<config, beside, sessions>>
                 \/ \* the proxy cannot be reached: call_tool returns {"error": ...}
                    /\ orch' = [asked EXCEPT !.pc = "done",
                                  !.result = [success |-> TRUE,
                                              final_result |-> [error |-> <<"timed out">>]]]
                    /\ idle

\* the result of call_tool is wrapped and returned
Orch_Finish ==
    /\ orch.pc = "call_tool"
    /\ op = "route_tool_call"
    /\ pc = "done"
    /\ orch' = [orch EXCEPT !.pc = "done",
                  !.result = [success |-> TRUE, final_result |-> ret]]
    /\ op' = "idle"
    /\ pc' = "idle"
    /\ ret' = NoResult
    /\ UNCHANGED <<config, beside, outcome, req,
                   target_server, actual_tool_name, pending, sessions, agg, forwarded>>

\* the caller of process_request has its answer
Orch_Return ==
    /\ orch.pc = "done"
    /\ orch' = OrchIdle
    /\ req' = NoRequest
    /\ target_server' = NoServer
    /\ actual_tool_name' = <<>>
    /\ forwarded' = NoForward
    /\ outcome' = "none"
    /\ UNCHANGED <<config, beside, op, pc,
                   pending, sessions, agg, ret>>

----------------------------------------------------------------------------
\* route_tool_call invocations that overlap: FastMCP runs every tool call as a
\* task of its own, and the locals of route_tool_call belong to the invocation

Callers == 1..MaxCallers

\* the tool names the overlapping invocations ask for
CallerNames ==
    {<<"github", "_", "list">>, <<"filesystem", "_", "list">>, <<"list">>}

\* the ProxyClient that client_manager.clients holds for a server
ManagerClient(s) == CHOOSE i \in 1..Len(ServerOrder) : ServerOrder[i] = s

\* an invocation that takes the client of the client manager as its session
ActualClient_ofManager(target) == ManagerClient(target)

\* actual_client = Client(transport): an object constructed by the invocation
ActualClient(target) == Len(ServerOrder) + created + 1

NoCall ==
    [pc |-> "idle", tool_name |-> <<>>, target_server |-> NoServer,
     actual_client |-> 0, outcome |-> "none"]

ConcurrentIdle ==
    /\ calls = [i \in Callers |-> NoCall]
    /\ opened = [c \in {} |-> {}]
    /\ created = 0

\* invocation i up to "async with actual_client"
Call_Begin(i) ==
    /\ calls[i].pc = "idle"
    /\ created < MaxClients
    /\ \E tool_name \in CallerNames :
         LET target == Router_route_tool_call(tool_name, [none |-> TRUE, items |-> {}])
         IN  IF ~get_client(target)
             THEN /\ calls' = [calls EXCEPT ![i] =
                                 [NoCall EXCEPT !.pc = "done", !.tool_name = tool_name,
                                                !.target_server = target,
                                                !.outcome = "no_client"]]
                  /\ created' = created
             ELSE /\ calls' = [calls EXCEPT ![i] =
                                 [NoCall EXCEPT !.pc = "enter", !.tool_name = tool_name,
                                                !.target_server = target,
                                                !.actual_client = ActualClient(target)]]
                  /\ created' = created + 1
    /\ UNCHANGED <<config, mcp, others, opened, op, pc, req, target_server, actual_tool_name,
                   pending, sessions, agg, ret, forwarded, outcome, orch>>

\* async with actual_client: Client.__aenter__; a Client that is entered already
\* keeps its session and counts one more user
Call_Enter(i) ==
    /\ calls[i].pc = "enter"
    /\ LET c == calls[i].actual_client
       IN  \/ /\ opened' = Put(opened, c, (IF c \in DOMAIN opened THEN opened[c] ELSE {}) \cup {i})
              /\ calls' = [calls EXCEPT ![i].pc = "call"]
           \/ /\ opened' = opened
              /\ calls' = [calls EXCEPT ![i].pc = "done", ![i].outcome = "launch_error"]
    /\ UNCHANGED <<config, mcp, others, created, op, pc, req, target_server, actual_tool_name,
                   pending, sessions, agg, ret, forwarded, outcome, orch>>

\* await actual_client.call_tool(...), and Client.__aexit__: the session is
\* closed when its last user leaves
Call_CallTool(i) ==
    /\ calls[i].pc = "call"
    /\ LET c == calls[i].actual_client
           left == opened[c] \ {i}
       IN  opened' = IF left = {} THEN Remove(opened, c) ELSE Put(opened, c, left)
    /\ \E o \in {"ok", "transport_error", "tool_error"} :
          calls' = [calls EXCEPT ![i].pc = "done", ![i].outcome = o]
    /\ UNCHANGED <<config, mcp, others, created, op, pc, req, target_server, actual_tool_name,
                   pending, sessions, agg, ret, forwarded, outcome, orch>>

\* the value goes back to the client that called the tool
Call_Return(i) ==
    /\ calls[i].pc = "done"
    /\ calls' = [calls EXCEPT ![i] = NoCall]
    /\ UNCHANGED <<config, mcp, others, opened, created, op, pc, req, target_server,
                   actual_tool_name, pending, sessions, agg, ret, forwarded, outcome, orch>>

NextConcurrent ==
    \/ \E i \in Callers : Call_Begin(i)
    \/ \E i \in Callers : Call_Enter(i)
    \/ \E i \in Callers : Call_CallTool(i)
    \/ \E i \in Callers : Call_Return(i)

----------------------------------------------------------------------------
\* MCPProxy (src/mcp_proxy_server.py)

MCP_SERVERS ==
    [filesystem |-> "stdio",
     github |-> "http://localhost:8002",
     gdrive |-> "http://localhost:8003",
     atlassian |-> "http://localhost:8004"]

\* a path is a sequence of tokens: "/" or a word
PathTokens == {"/", "github", "filesystem", "invalid", "test"}

Paths == UNION {[1..n -> PathTokens] : n \in 0..MaxPathLen}

\* s.lstrip(ch)
RECURSIVE LStrip(_, _)
LStrip(s, ch) ==
    IF s # <<>> /\ Head(s) = ch THEN LStrip(Tail(s), ch) ELSE s

\* s.rstrip(ch)
RECURSIVE RStrip(_, _)
RStrip(s, ch) ==
    IF s # <<>> /\ s[Len(s)] = ch THEN RStrip(SubSeq(s, 1, Len(s) - 1), ch) ELSE s

\* s.strip(ch)
Strip(s, ch) == RStrip(LStrip(s, ch), ch)

\* s.split(ch): the list of the segments, the empty ones included
RECURSIVE Split(_, _)
Split(s, ch) ==
    IF \A i \in 1..Len(s) : s[i] # ch THEN <<s>>
    ELSE LET k == Min({i \in 1..Len(s) : s[i] = ch})
         IN  <<SubSeq(s, 1, k - 1)>> \o Split(SubSeq(s, k + 1, Len(s)), ch)

\* ch.join(parts)
RECURSIVE Join(_, _)
Join(parts, ch) ==
    IF parts = <<>> THEN <<>>
    ELSE IF Len(parts) = 1 THEN parts[1]
    ELSE parts[1] \o <<ch>> \o Join(Tail(parts), ch)

\* server_key in self.servers
IsServerKey(segment) == Len(segment) = 1 /\ segment[1] \in DOMAIN MCP_SERVERS

\* a remaining path that keeps the server key
remaining_path_all(parts) == Join(parts, "/")

\* '/'.join(parts[1:])
remaining_path(parts) == Join(Tail(parts), "/")

NoTarget == [raised |-> 0, server_url |-> "", remaining_path |-> <<>>]

\* raised: the status code of the HTTPException, 0 when a value is returned
get_target_server(path) ==
    LET parts == Split(Strip(path, "/"), "/")
    IN  IF parts = <<>> THEN [NoTarget EXCEPT !.raised = 400]
        ELSE LET server_key == parts[1]
             IN  IF ~IsServerKey(server_key) THEN [NoTarget EXCEPT !.raised = 404]
                 ELSE [raised |-> 0,
                       server_url |-> MCP_SERVERS[server_key[1]],
                       remaining_path |-> remaining_path(parts)]

\* the MCPRequest objects _generate_mcp_request builds; params by its keys
AgentRequests ==
    {[server |-> "github", method |-> "get_issue", params |-> {"issue_number"}],
     [server |-> "github", method |-> "get_repository", params |-> {"owner", "repo"}],
     [server |-> "github", method |-> "get_user", params |-> {"username"}],
     [server |-> "filesystem", method |-> "list_files", params |-> {"path"}],
     [server |-> "filesystem", method |-> "read_file", params |-> {"path"}],
     [server |-> "atlassian", method |-> "get_issue", params |-> {"issue_key"}]}

NoMcpRequest == [server |-> "none", method |-> "none", params |-> {}]

\* f"{self.proxy_url}/proxy/{server}/mcp/{method}": the path behind the host
AgentUrl(r) == <<"proxy", "/", r.server, "/", "mcp", "/", r.method>>

\* the body is parsed as MCPRequest: "method" is required, "params" optional
Validates(json) == "method" \in json

ClientBodies == {{"method"}, {"method", "params"}}

McpIdle ==
    [pc |-> "idle", path |-> <<>>, json |-> {}, agent |-> NoMcpRequest,
     target |-> NoTarget, forwarded |-> FALSE, outcome |-> "none",
     status |-> 0, body |-> "none"]

\* how the try block of forward_request can end for the filesystem server
StdioOutcomes ==
    {"launch_failed", "broken_pipe", "no_line", "not_json",
     "error_object", "error_not_object", "result"}

\* how it can end for a server behind a URL
HttpOutcomes == {"ConnectError", "HTTPError", "other_exception", "response_ok"}

\* the exception the try block ends with, "none" when it returns a value
Raised(ending) ==
    CASE ending = "launch_failed" -> "HTTPException"
      [] ending = "broken_pipe" -> "BrokenPipeError"
      [] ending = "no_line" -> "Exception"
      [] ending = "not_json" -> "JSONDecodeError"
      [] ending = "error_not_object" -> "AttributeError"
      [] ending = "ConnectError" -> "ConnectError"
      [] ending = "HTTPError" -> "HTTPError"
      [] ending = "other_exception" -> "Exception"
      \* "await response.json()": json() returns a dict, which is not awaitable
      [] ending = "response_ok" -> "TypeError"
      [] OTHER -> "none"

\* isinstance(e, cls) for the classes the except clauses name
IsInstance(e, cls) ==
    \/ e = cls
    \/ cls = "HTTPError" /\ e = "ConnectError"
    \/ cls = "Exception" /\ e # "none"

\* forward_request without its last except clause
forward_request_propagates(ending) ==
    LET e == Raised(ending)
    IN  IF e = "none"
        THEN [raised |-> "none",
              body |-> IF ending = "error_object" THEN "SERVER_ERROR" ELSE "result"]
        ELSE IF IsInstance(e, "ConnectError")
        THEN [raised |-> "none", body |-> "SERVER_UNAVAILABLE"]
        ELSE IF IsInstance(e, "HTTPError")
        THEN [raised |-> "none", body |-> "HTTP_ERROR"]
        ELSE [raised |-> e, body |-> "none"]

\* forward_request: the value returned for the way the try block ended
forward_request(ending) ==
    LET e == Raised(ending)
    IN  IF e = "none"
        THEN [raised |-> "none",
              body |-> IF ending = "error_object" THEN "SERVER_ERROR" ELSE "result"]
        ELSE IF IsInstance(e, "ConnectError")
        THEN [raised |-> "none", body |-> "SERVER_UNAVAILABLE"]
        ELSE IF IsInstance(e, "HTTPError")
        THEN [raised |-> "none", body |-> "HTTP_ERROR"]
        ELSE IF IsInstance(e, "Exception")
        THEN [raised |-> "none", body |-> "UNKNOWN_ERROR"]
        ELSE [raised |-> e, body |-> "none"]

\* proxy_request up to "await proxy.forward_request(...)", for a request of a
\* client of the proxy or of the agent (call_mcp_via_proxy)
ProxyRequest_Begin ==
    /\ mcp.pc = "idle"
    /\ \E path \in Paths \cup {AgentUrl(r) : r \in AgentRequests} :
       \E r \in IF path \in Paths THEN {NoMcpRequest}
                ELSE {a \in AgentRequests : AgentUrl(a) = path} :
       \E json \in IF r = NoMcpRequest THEN ClientBodies ELSE {r.params} :
         LET target == get_target_server(path)
             arrived == [McpIdle EXCEPT !.path = path, !.json = json, !.agent = r]
         IN  mcp' = IF ~Validates(json)
                    THEN [arrived EXCEPT !.pc = "done", !.status = 422, !.body = "detail"]
                    ELSE IF target.raised # 0
                    THEN [arrived EXCEPT !.pc = "done", !.target = target,
                                         !.status = target.raised, !.body = "detail"]
                    ELSE [arrived EXCEPT !.pc = "forward", !.target = target]
    /\ UNCHANGED <<config, concurrent, others, handlers>>

\* forward_request returns and its value is the response; an exception that
\* leaves it becomes the response 500
ProxyRequest_Forward ==
    /\ mcp.pc = "forward"
    /\ \E o \in IF mcp.target.server_url = "stdio" THEN StdioOutcomes ELSE HttpOutcomes :
         LET result == forward_request(o)
         IN  mcp' = IF result.raised # "none"
                    THEN [mcp EXCEPT !.pc = "done", !.forwarded = TRUE, !.outcome = o,
                                     !.status = 500, !.body = "detail"]
                    ELSE [mcp EXCEPT !.pc = "done", !.forwarded = TRUE, !.outcome = o,
                                     !.status = 200, !.body = result.body]
    /\ UNCHANGED <<config, concurrent, others, handlers>>

\* the response is sent
ProxyRequest_Return ==
    /\ mcp.pc = "done"
    /\ mcp' = McpIdle
    /\ UNCHANGED <<config, concurrent, others, handlers>>

NextMcp ==
    \/ ProxyRequest_Begin
    \/ ProxyRequest_Forward
    \/ ProxyRequest_Return

----------------------------------------------------------------------------
\* MCPProxy: requests that overlap, and the filesystem server behind the pipe

Requests == 1..MaxRequests

\* the paths of the requests that overlap: one segment, then "/test"
ConcurrentPaths == {p \in Paths : Len(p) = 3 /\ p[1] # "/" /\ p[2] = "/" /\ p[3] = "test"}

NoProxyRequest == [pc |-> "idle", server_url |-> "", outcome |-> "none",
                   status |-> 0, body |-> "none", line |-> 0]

\* filesystem_process is "None" or the Popen object; backend is the state of
\* the process behind it; stdin holds the requests written and not yet taken,
\* stdout the response lines not yet read, each with the request it answers;
\* running is the coroutine the event loop is executing, 0 when it is idle
PxIdle ==
    [reqs |-> [i \in Requests |-> NoProxyRequest], running |-> 0,
     filesystem_process |-> "None", launches |-> 0, backend |-> "none",
     stdin |-> <<>>, stdout |-> <<>>]

\* an await that gives the event loop to other coroutines, as if the
\* response line were awaited too
Suspends_atReadline(step) == step \in {"post", "read"}

\* an await that gives the event loop to other coroutines: only the post of
\* the HTTP client does; get_target_server and start_filesystem_server await
\* nothing, and write, flush and readline are blocking calls
Suspends(step) == step = "post"

\* the event loop can run a step of request i
CanRun(i) == px.running = i \/ px.running = 0

\* the event loop after a step of request i that leaves it at pc "step"
Yield(i, step) == IF step \in {"idle", "done"} \/ Suspends(step) THEN 0 ELSE i

\* start_filesystem_server that launches whatever filesystem_process holds
start_filesystem_server_always(process, popen_raises) ==
    IF popen_raises
    THEN [process |-> process, launched |-> 0, raised |-> TRUE]
    ELSE [process |-> "Popen", launched |-> 1, raised |-> FALSE]

\* start_filesystem_server
start_filesystem_server(process, popen_raises) ==
    IF process = "None"
    THEN IF popen_raises
         THEN [process |-> process, launched |-> 0, raised |-> TRUE]
         ELSE [process |-> "Popen", launched |-> 1, raised |-> FALSE]
    ELSE [process |-> process, launched |-> 0, raised |-> FALSE]

\* forward_request has ended the way "ending" says: its value is the response
Finished(i, ending, line) ==
    LET result == forward_request(ending)
    IN  [px.reqs[i] EXCEPT !.pc = "done", !.outcome = ending, !.line = line,
                           !.status = IF result.raised # "none" THEN 500 ELSE 200,
                           !.body = IF result.raised # "none" THEN "detail" ELSE result.body]

\* proxy_request up to the first statement of forward_request's branch
Px_Begin(i) ==
    /\ CanRun(i)
    /\ px.reqs[i].pc = "idle"
    /\ \E path \in ConcurrentPaths :
         LET target == get_target_server(path)
             step == IF target.raised # 0 THEN "done"
                     ELSE IF target.server_url = "stdio" THEN "start" ELSE "post"
         IN  px' = [px EXCEPT
                      !.reqs[i] = [NoProxyRequest EXCEPT
                                     !.pc = step, !.server_url = target.server_url,
                                     !.status = target.raised,
                                     !.body = IF target.raised # 0 THEN "detail" ELSE "none"],
                      !.running = Yield(i, step)]
    /\ UNCHANGED <<config, concurrent, mcp, agent, llm, handlers>>

\* await self.start_filesystem_server()
Px_Start(i) ==
    /\ CanRun(i)
    /\ px.reqs[i].pc = "start"
    /\ px.launches < MaxLaunches
    /\ \E popen_raises \in BOOLEAN :
         LET started == start_filesystem_server(px.filesystem_process, popen_raises)
         IN  px' = IF started.raised
                   THEN [px EXCEPT !.reqs[i] = Finished(i, "launch_failed", 0),
                                   !.running = 0]
                   ELSE [px EXCEPT !.reqs[i].pc = "write",
                                   !.filesystem_process = started.process,
                                   !.launches = @ + started.launched,
                                   !.backend = IF started.launched = 1 THEN "alive" ELSE @,
                                   !.stdin = IF started.launched = 1 THEN <<>> ELSE @,
                                   !.stdout = IF started.launched = 1 THEN <<>> ELSE @,
                                   !.running = Yield(i, "write")]
    /\ UNCHANGED <<config, concurrent, mcp, agent, llm, handlers>>

\* self.filesystem_stdin.write(request_json + "\n"); flush()
Px_Write(i) ==
    /\ CanRun(i)
    /\ px.reqs[i].pc = "write"
    /\ px' = IF px.backend = "dead"
             THEN [px EXCEPT !.reqs[i] = Finished(i, "broken_pipe", 0), !.running = 0]
             ELSE [px EXCEPT !.reqs[i].pc = "read", !.stdin = Append(@, i),
                             !.running = Yield(i, "read")]
    /\ UNCHANGED <<config, concurrent, mcp, agent, llm, handlers>>

\* self.filesystem_stdout.readline() and the rest of the branch: the call
\* blocks until a line or the end of the stream is there
Px_Read(i) ==
    /\ CanRun(i)
    /\ px.reqs[i].pc = "read"
    /\ px.stdout # <<>> \/ px.backend = "dead"
    /\ px' = IF px.stdout = <<>>
             THEN [px EXCEPT !.reqs[i] = Finished(i, "no_line", 0), !.running = 0]
             ELSE [px EXCEPT !.reqs[i] = Finished(i, Head(px.stdout).kind, Head(px.stdout).for),
                             !.stdout = Tail(@), !.running = 0]
    /\ UNCHANGED <<config, concurrent, mcp, agent, llm, handlers>>

\* await self.client.post(..., timeout=30.0) ends, and the rest of the branch
Px_Respond(i) ==
    /\ CanRun(i)
    /\ px.reqs[i].pc = "post"
    /\ \E o \in HttpOutcomes :
         px' = [px EXCEPT !.reqs[i] = Finished(i, o, 0), !.running = 0]
    /\ UNCHANGED <<config, concurrent, mcp, agent, llm, handlers>>

\* the response is sent
Px_Return(i) ==
    /\ CanRun(i)
    /\ px.reqs[i].pc = "done"
    /\ px' = [px EXCEPT !.reqs[i] = NoProxyRequest]
    /\ UNCHANGED <<config, concurrent, mcp, agent, llm, handlers>>

\* the filesystem server answers the oldest request on its stdin with a line
Backend_Answer ==
    /\ px.backend = "alive"
    /\ px.stdin # <<>>
    /\ \E kind \in {"result", "error_object", "error_not_object", "not_json"} :
         px' = [px EXCEPT !.stdin = Tail(@),
                          !.stdout = Append(@, [for |-> Head(px.stdin), kind |-> kind])]
    /\ UNCHANGED <<config, concurrent, mcp, agent, llm, handlers>>

\* the filesystem server exits, or stops answering (it blocks, for one on its
\* stderr, a pipe nothing reads)
Backend_Stops ==
    /\ px.backend = "alive"
    /\ \E how \in {"dead", "hung"} :
         px' = [px EXCEPT !.backend = how, !.stdin = <<>>]
    /\ UNCHANGED <<config, concurrent, mcp, agent, llm, handlers>>

NextProxy ==
    \/ \E i \in Requests : Px_Begin(i)
    \/ \E i \in Requests : Px_Start(i)
    \/ \E i \in Requests : Px_Write(i)
    \/ \E i \in Requests : Px_Read(i)
    \/ \E i \in Requests : Px_Respond(i)
    \/ \E i \in Requests : Px_Return(i)
    \/ Backend_Answer
    \/ Backend_Stops

----------------------------------------------------------------------------
\* DevAssistantAgent (dev_assistant_agent/agent.py)

Queries ==
    {"What is NEX-123 about?", "github issue #5", "github repo octo/cat",
     "github user bob", "list files in /tmp", "read file a.txt",
     "jira ticket NEX-1", "hello"}

\* parse_user_query: the first pattern that matches the lowercased query and
\* its group; "general_info" and None when no pattern matches ("NEX-" in the
\* pattern of jira_ticket never matches a lowercased query)
parse_user_query(query) ==
    CASE query = "github issue #5" -> [intent |-> "github_issue", match |-> "5"]
      [] query = "github repo octo/cat" -> [intent |-> "github_repo", match |-> "octo/cat"]
      [] query = "github user bob" -> [intent |-> "github_user", match |-> "bob"]
      [] query = "list files in /tmp" -> [intent |-> "file_list", match |-> "in"]
      [] query = "read file a.txt" -> [intent |-> "file_read", match |-> "a.txt"]
      [] query = "What is NEX-123 about?" ->
             [intent |-> "general_info", match |-> " is nex-123 about?"]
      [] OTHER -> [intent |-> "general_info", match |-> "None"]

\* _generate_mcp_request
generate_mcp_request(intent, match_value) ==
    LET request(server, method) ==
            CHOOSE r \in AgentRequests : r.server = server /\ r.method = method
    IN  IF match_value = "None" THEN NoMcpRequest
        ELSE CASE intent = "github_issue" -> request("github", "get_issue")
               [] intent = "github_repo" -> request("github", "get_repository")
               [] intent = "github_user" -> request("github", "get_user")
               [] intent = "file_list" -> request("filesystem", "list_files")
               [] intent = "file_read" -> request("filesystem", "read_file")
               [] intent = "jira_ticket" -> request("atlassian", "get_issue")
               [] OTHER -> NoMcpRequest

\* call_mcp_via_proxy: the post, raise_for_status or json() raises, or not
call_mcp_via_proxy(mcp_request, raises) ==
    IF raises
    THEN [success |-> FALSE, server |-> mcp_request.server,
          method |-> mcp_request.method, error |-> "str(e)"]
    ELSE [success |-> TRUE, server |-> mcp_request.server,
          method |-> mcp_request.method, data |-> "result"]

NoMcpCall == [success |-> FALSE, message |-> "No MCP call needed"]

\* how RAGSetup.query ends: it returns an answer, returns its failure
\* dictionary, or raises (no query engine)
RagEndings == {"answer", "failure", "raises"}

\* source_nodes of an answer: the file_name of each node's metadata, "None"
\* for a node without one
SourceNodes == {<<>>, <<"a.md">>, <<"a.md", "None", "a.md">>}

\* query_rag_system without its try
query_rag_system_propagates(rag_system, ending, source_nodes) ==
    IF rag_system = "None"
    THEN [raised |-> FALSE,
          value |-> [success |-> FALSE, error |-> "RAG system not initialized"]]
    ELSE CASE ending = "answer" ->
                [raised |-> FALSE,
                 value |-> [success |-> TRUE, answer |-> "str(response)",
                            source_nodes |-> source_nodes]]
           [] ending = "failure" ->
                [raised |-> FALSE, value |-> [success |-> FALSE, error |-> "str(e)"]]
           [] OTHER -> [raised |-> TRUE, value |-> NoResult]

\* query_rag_system
query_rag_system(rag_system, ending, source_nodes) ==
    IF rag_system = "None"
    THEN [raised |-> FALSE,
          value |-> [success |-> FALSE, error |-> "RAG system not initialized"]]
    ELSE CASE ending = "answer" ->
                [raised |-> FALSE,
                 value |-> [success |-> TRUE, answer |-> "str(response)",
                            source_nodes |-> source_nodes]]
           [] OTHER ->
                [raised |-> FALSE, value |-> [success |-> FALSE, error |-> "str(e)"]]

\* the loop over source_nodes: a source is appended unless it is listed
RECURSIVE AddSources(_, _)
AddSources(sources, source_nodes) ==
    IF source_nodes = <<>> THEN sources
    ELSE LET source_info == IF Head(source_nodes) = "None" THEN "Unknown document"
                            ELSE Head(source_nodes)
         IN  AddSources(IF \E k \in 1..Len(sources) : sources[k] = source_info
                        THEN sources ELSE Append(sources, source_info),
                        Tail(source_nodes))

\* synthesize_response
synthesize_response(user_query, mcp_result, rag_result) ==
    LET from_mcp == IF mcp_result.success
                    THEN <<"From server:", mcp_result.data>> ELSE <<>>
        mcp_sources == IF mcp_result.success THEN <<"MCP " \o mcp_result.server>> ELSE <<>>
        from_rag == IF rag_result.success
                    THEN <<"From knowledge base:", rag_result.answer>> ELSE <<>>
        neither == IF ~mcp_result.success /\ ~rag_result.success
                   THEN <<"I couldn't find information">>
                        \o (IF "error" \in DOMAIN mcp_result THEN <<"MCP Error">> ELSE <<>>)
                        \o (IF "error" \in DOMAIN rag_result THEN <<"RAG Error">> ELSE <<>>)
                   ELSE <<>>
    IN  [user_query |-> user_query, mcp_result |-> mcp_result, rag_result |-> rag_result,
         synthesized_answer |-> from_mcp \o from_rag \o neither,
         sources |-> IF rag_result.success
                     THEN AddSources(mcp_sources, rag_result.source_nodes)
                     ELSE mcp_sources]

\* the except clause of process_message
ProcessMessageFailed(user_query) ==
    [user_query |-> user_query, error |-> "str(e)",
     synthesized_answer |-> <<"I encountered an error processing your request">>]

\* how the GET of <proxy>/health ends: 200 with a JSON body, 200 with a body
\* json() rejects, another status, or an exception
HealthEndings == {"200", "200 not JSON", "503", "raises"}

\* how get_index_stats ends
StatsEndings == {"stats", "raises"}

\* the components of health_check
Components(rag_system, health, stats) ==
    [mcp_proxy |-> IF health = "200" THEN "healthy" ELSE "unhealthy",
     rag_system |-> IF rag_system # "None" /\ stats = "stats" THEN "healthy" ELSE "unhealthy"]

\* the unhealthy components, looking at the proxy only
unhealthy_components_proxyOnly(components) ==
    IF components.mcp_proxy # "healthy" THEN <<"mcp_proxy">> ELSE <<>>

\* unhealthy_components: the comprehension over health["components"]
unhealthy_components(components) ==
    SelectSeq(<<"mcp_proxy", "rag_system">>, LAMBDA name : components[name] # "healthy")

\* the value health_check returns
AgentHealth(components) ==
    IF unhealthy_components(components) # <<>>
    THEN [agent_status |-> "degraded", components |-> components,
          unhealthy_components |-> unhealthy_components(components)]
    ELSE [agent_status |-> "healthy", components |-> components]

AgentIdle ==
    [pc |-> "idle", op |-> "idle", user_query |-> "", rag_system |-> "None",
     mcp_request |-> NoMcpRequest, mcp_result |-> NoResult, endings |-> <<>>,
     response |-> NoResult]

\* process_message up to "await self.call_mcp_via_proxy(...)", or up to the
\* query of the RAG system when no MCP call is needed
ProcessMessage_Begin ==
    /\ agent.pc = "idle"
    /\ \E user_query \in Queries, rag_system \in {"None", "RAGSetup"} :
         LET parsed == parse_user_query(user_query)
             mcp_request == generate_mcp_request(parsed.intent, parsed.match)
         IN  agent' = [AgentIdle EXCEPT
                         !.op = "process_message", !.user_query = user_query,
                         !.rag_system = rag_system, !.mcp_request = mcp_request,
                         !.mcp_result = NoMcpCall,
                         !.pc = IF mcp_request # NoMcpRequest THEN "call_mcp" ELSE "rag"]
    /\ UNCHANGED <<config, concurrent, mcp, px, llm, handlers>>

\* call_mcp_via_proxy returns
ProcessMessage_CallMcp ==
    /\ agent.pc = "call_mcp"
    /\ \E raises \in BOOLEAN :
         agent' = [agent EXCEPT !.pc = "rag",
                                !.mcp_result = call_mcp_via_proxy(agent.mcp_request, raises)]
    /\ UNCHANGED <<config, concurrent, mcp, px, llm, handlers>>

\* query_rag_system, synthesize_response, and the except clause
ProcessMessage_Finish ==
    /\ agent.pc = "rag"
    /\ \E ending \in RagEndings, source_nodes \in SourceNodes :
         LET rag == query_rag_system(agent.rag_system, ending, source_nodes)
         IN  agent' = [agent EXCEPT
                         !.pc = "done", !.endings = <<ending>>,
                         !.response =
                            IF rag.raised THEN ProcessMessageFailed(agent.user_query)
                            ELSE synthesize_response(agent.user_query, agent.mcp_result,
                                                     rag.value)]
    /\ UNCHANGED <<config, concurrent, mcp, px, llm, handlers>>

\* health_check up to "await self.http_client.get(...)"
AgentHealth_Begin ==
    /\ agent.pc = "idle"
    /\ \E rag_system \in {"None", "RAGSetup"} :
         agent' = [AgentIdle EXCEPT !.op = "health_check", !.pc = "get_health",
                                    !.rag_system = rag_system]
    /\ UNCHANGED <<config, concurrent, mcp, px, llm, handlers>>

\* the rest of health_check
AgentHealth_Finish ==
    /\ agent.pc = "get_health"
    /\ \E health \in HealthEndings, stats \in StatsEndings :
         agent' = [agent EXCEPT
                     !.pc = "done", !.endings = <<health, stats>>,
                     !.response = AgentHealth(Components(agent.rag_system, health, stats))]
    /\ UNCHANGED <<config, concurrent, mcp, px, llm, handlers>>

Agent_Return ==
    /\ agent.pc = "done"
    /\ agent' = AgentIdle
    /\ UNCHANGED <<config, concurrent, mcp, px, llm, handlers>>

NextAgent ==
    \/ ProcessMessage_Begin
    \/ ProcessMessage_CallMcp
    \/ ProcessMessage_Finish
    \/ AgentHealth_Begin
    \/ AgentHealth_Finish
    \/ Agent_Return

----------------------------------------------------------------------------
\* LLMOrchestrator (src/llm_orchestrator_with_openai.py)

\* the names of "configs", in their order
ConfigNames == <<"github", "filesystem", "atlassian">>

\* how the session of one client ends: it answers, or raises with a message
PingEndings == {<<"ok">>} \cup ErrMsgs

\* what the model answers, as tokens; "raises" when the completion raises
LlmReplies ==
    {<<"github">>, <<" ", "GITHUB", " ">>, <<"atlassian">>, <<"nosuch">>,
     <<"the", " ", "github", " ", "server">>, <<"raises">>}

\* str.lower() of a token
Lower(token) == IF token = "GITHUB" THEN "github" ELSE token

\* ask_llm_to_choose_server: the reply stripped and lowercased when it is one
\* of available_servers, "filesystem" otherwise and when the completion raises
ask_llm_to_choose_server(reply, available_servers) ==
    LET chosen_server == [k \in 1..Len(Strip(reply, " ")) |-> Lower(Strip(reply, " ")[k])]
    IN  IF reply = <<"raises">> THEN "filesystem"
        ELSE IF /\ Len(chosen_server) = 1
                /\ \E k \in 1..Len(available_servers) :
                       available_servers[k] = chosen_server[1]
             THEN chosen_server[1]
             ELSE "filesystem"

\* the status discover_servers and health_check store for a client
LlmStatus(ending, good) ==
    IF ending = <<"ok">> THEN <<CheckMark, good>>
    ELSE <<CrossMark, " Un", "available: ">> \o ending

\* the names of "results" whose status contains the check mark, in order
MarkedServers(results) ==
    SelectSeq(ConfigNames,
              LAMBDA name : name \in DOMAIN results /\ Contains(results[name], <<CheckMark>>))

\* the summary of health_check; the division raises when there is no client
LlmSummary(health_status) ==
    LET healthy_count == Len(MarkedServers(health_status))
        total == Cardinality(DOMAIN health_status)
    IN  IF total = 0 THEN [raised |-> "ZeroDivisionError"]
        ELSE [raised |-> "none", healthy_servers |-> healthy_count,
              total_servers |-> total,
              health_percentage |-> Percentage(healthy_count, total)]

LlmIdle ==
    [pc |-> "idle", op |-> "idle", clients |-> {}, available_servers |-> <<>>,
     chosen_server |-> "none", asked |-> {}, invoked |-> {}, result |-> NoResult]

\* process_user_request, step 1: discover_servers. The clients are those
\* whose construction did not raise.
Llm_Discover ==
    /\ llm.pc = "idle"
    /\ \E made \in SUBSET {ConfigNames[k] : k \in 1..Len(ConfigNames)} :
       \E endings \in [made -> PingEndings] :
         LET results == [name \in made |-> LlmStatus(endings[name], " Available")]
             available_servers == MarkedServers(results)
         IN  llm' = IF available_servers = <<>>
                    THEN [LlmIdle EXCEPT !.op = "process_user_request", !.pc = "done",
                                         !.clients = made,
                                         !.result = [error |-> "No servers available"]]
                    ELSE [LlmIdle EXCEPT !.op = "process_user_request", !.pc = "choose",
                                         !.clients = made,
                                         !.available_servers = available_servers]
    /\ UNCHANGED <<config, concurrent, mcp, px, agent, handlers>>

\* step 2: the model chooses the server
Llm_ChooseServer ==
    /\ llm.pc = "choose"
    /\ \E reply \in LlmReplies :
         llm' = [llm EXCEPT !.pc = "get_tools",
                            !.chosen_server =
                                ask_llm_to_choose_server(reply, llm.available_servers)]
    /\ UNCHANGED <<config, concurrent, mcp, px, agent, handlers>>

\* step 3: get_server_tools(chosen_server), then the checks on its value and
\* the choices of the tool and of the arguments
Llm_GetTools ==
    /\ llm.pc = "get_tools"
    /\ \E ending \in {"tools", "no tools", "raises", "no tool chosen"} :
         llm' = IF llm.chosen_server \notin llm.clients
                THEN [llm EXCEPT !.pc = "done", !.result = [error |-> "Failed to get tools"]]
                ELSE IF ending = "tools"
                THEN [llm EXCEPT !.pc = "execute", !.asked = {llm.chosen_server}]
                ELSE [llm EXCEPT !.pc = "done", !.asked = {llm.chosen_server},
                                 !.result = [error |-> ending]]
    /\ UNCHANGED <<config, concurrent, mcp, px, agent, handlers>>

\* step 6: call_server_tool(chosen_server, ...)
Llm_Execute ==
    /\ llm.pc = "execute"
    /\ llm' = [llm EXCEPT !.pc = "done", !.invoked = {llm.chosen_server},
                          !.result = [success |-> TRUE]]
    /\ UNCHANGED <<config, concurrent, mcp, px, agent, handlers>>

\* health_check of the orchestrator
Llm_HealthCheck ==
    /\ llm.pc = "idle"
    /\ \E made \in SUBSET {ConfigNames[k] : k \in 1..Len(ConfigNames)} :
       \E endings \in [made -> PingEndings] :
         LET health_status == [name \in made |-> LlmStatus(endings[name], " Healthy")]
         IN  llm' = [LlmIdle EXCEPT !.op = "health_check", !.pc = "done",
                                    !.clients = made,
                                    !.result = LlmSummary(health_status)]
    /\ UNCHANGED <<config, concurrent, mcp, px, agent, handlers>>

Llm_Return ==
    /\ llm.pc = "done"
    /\ llm' = LlmIdle
    /\ UNCHANGED <<config, concurrent, mcp, px, agent, handlers>>

NextLlm ==
    \/ Llm_Discover
    \/ Llm_ChooseServer
    \/ Llm_GetTools
    \/ Llm_Execute
    \/ Llm_HealthCheck
    \/ Llm_Return

\* the health checks alone
NextHealth ==
    \/ HealthCheck_Begin
    \/ \E s \in Servers : HealthCheck_Open(s)
    \/ \E s \in Servers : HealthCheck_Ping(s)
    \/ \E s \in Servers : HealthCheck_List(s)
    \/ HealthCheck_Finish
    \/ Handler_Return
    \/ Llm_HealthCheck
    \/ Llm_Return


OthersIdle == px = PxIdle /\ agent = AgentIdle /\ llm = LlmIdle

----------------------------------------------------------------------------
\* The system

\* no tool handler has been called yet
HandlersIdle ==
    /\ op = "idle"
    /\ pc = "idle"
    /\ req = NoRequest
    /\ target_server = NoServer
    /\ actual_tool_name = <<>>
    /\ pending = <<>>
    /\ sessions = EmptyMap
    /\ agg = EmptyMap
    /\ ret = NoResult
    /\ forwarded = NoForward
    /\ outcome = "none"
    /\ orch = OrchIdle

Misconfigured(tr, raises) == {s \in Servers : tr[s] # "stdio"} \cup raises

Init ==
    /\ prefix_delimiter \in Delimiters
    /\ transport \in [Servers -> Transports]
    /\ ctor_raises \in SUBSET {s \in Servers : transport[s] = "stdio"}
    /\ Cardinality(Misconfigured(transport, ctor_raises)) <= MaxMisconfigured
    /\ clients = initialize_clients(transport, ctor_raises)
    /\ proxy_config_strategy = "prefix"
    /\ routing_config_strategy = "absent"
    /\ HandlersIdle
    /\ ConcurrentIdle
    /\ mcp = McpIdle
    /\ OthersIdle

Next ==
    \/ RouteToolCall_Begin
    \/ RouteToolCall_Connect
    \/ RouteToolCall_Call
    \/ ListAllTools_Begin
    \/ \E s \in Servers : ListAllTools_Open(s)
    \/ \E s \in Servers : ListAllTools_List(s)
    \/ ListAllTools_Finish
    \/ HealthCheck_Begin
    \/ \E s \in Servers : HealthCheck_Open(s)
    \/ \E s \in Servers : HealthCheck_Ping(s)
    \/ \E s \in Servers : HealthCheck_List(s)
    \/ HealthCheck_Finish
    \/ GetServerStatus_Begin
    \/ \E s \in Servers : GetServerStatus_Open(s)
    \/ \E s \in Servers : GetServerStatus_Ping(s)
    \/ GetServerStatus_Finish
    \/ GetMethods_Begin
    \/ \E s \in Servers : GetMethods_Open(s)
    \/ \E s \in Servers : GetMethods_List(s)
    \/ GetMethods_Finish
    \/ RouteByPrefix_Begin
    \/ RouteByPrefix_Connect
    \/ RouteByPrefix_Call
    \/ \E s \in Servers : Backend_NeverAnswers(s)
    \/ Handler_Return
    \/ Orch_Begin
    \/ Orch_Decide
    \/ Orch_Finish
    \/ Orch_Return

Spec == Init /\ [][Next]_vars

\* the event loop resumes a handler whose await has ended
FairSpec == Spec /\ WF_vars(Next)

\* the configurations of the routing strategy, over the shipped servers
InitStrategy ==
    /\ prefix_delimiter = <<"_">>
    /\ transport = [s \in Servers |-> "stdio"]
    /\ ctor_raises = {}
    /\ clients = initialize_clients(transport, ctor_raises)
    /\ proxy_config_strategy \in Strategies
    /\ routing_config_strategy \in Strategies \cup {"absent"}
    /\ HandlersIdle
    /\ ConcurrentIdle
    /\ mcp = McpIdle
    /\ OthersIdle

SpecStrategy == InitStrategy /\ [][Next]_vars

SpecConcurrent == Init /\ [][NextConcurrent]_vars

\* the configuration as shipped (config.py)
InitShipped ==
    /\ prefix_delimiter = <<"_">>
    /\ transport = [s \in Servers |-> "stdio"]
    /\ ctor_raises = {}
    /\ clients = initialize_clients(transport, ctor_raises)
    /\ proxy_config_strategy = "prefix"
    /\ routing_config_strategy = "absent"
    /\ HandlersIdle
    /\ ConcurrentIdle
    /\ mcp = McpIdle
    /\ OthersIdle

SpecMcp == InitShipped /\ [][NextMcp]_vars

SpecProxy == InitShipped /\ [][NextProxy]_vars

SpecAgent == InitShipped /\ [][NextAgent]_vars

SpecLlm == InitShipped /\ [][NextLlm]_vars

\* every configuration of the proxy, the ones without any client included
InitHealth ==
    /\ prefix_delimiter = <<"_">>
    /\ transport \in [Servers -> Transports]
    /\ ctor_raises \in SUBSET {s \in Servers : transport[s] = "stdio"}
    /\ clients = initialize_clients(transport, ctor_raises)
    /\ proxy_config_strategy = "prefix"
    /\ routing_config_strategy = "absent"
    /\ HandlersIdle
    /\ ConcurrentIdle
    /\ mcp = McpIdle
    /\ OthersIdle

SpecHealth == InitHealth /\ [][NextHealth]_vars

\* the event loop runs a coroutine that can run, and the filesystem server,
\* while it is alive, answers what it was sent
FairSpecProxy ==
    /\ SpecProxy
    /\ \A i \in Requests :
         /\ SF_vars(Px_Start(i)) /\ SF_vars(Px_Write(i)) /\ SF_vars(Px_Read(i))
         /\ SF_vars(Px_Respond(i)) /\ SF_vars(Px_Return(i))
    /\ WF_vars(Backend_Answer)

----------------------------------------------------------------------------
\* Properties

RouteDone == op = "route_tool_call" /\ pc = "done"

WasForwarded == forwarded.server # NoServer

\* the /tools/call endpoint reports success = false when the result has an error
\* key (fastapi_app.py), and success = true otherwise
ToolCallResponse_success(result) == "error" \notin DOMAIN result

HasKnownPrefix(tool_name) ==
    /\ Contains(tool_name, prefix_delimiter)
    /\ IsServerId(SplitFirst(tool_name, prefix_delimiter))

\* C1: a tool name whose text before the first configured delimiter is a
\* registered backend id p is routed to p, and the name forwarded to p is the
\* requested name without its leading p + delimiter, removed once.
C1_KnownPrefixRoutedAndStripped ==
    (op = "route_tool_call" /\ HasKnownPrefix(req.tool_name)) =>
        LET p == SplitFirst(req.tool_name, prefix_delimiter)
        IN  /\ target_server = ServerOf(p)
            /\ WasForwarded =>
                  /\ forwarded.server = ServerOf(p)
                  /\ forwarded.tool =
                       DropFirst(req.tool_name, Len(p \o prefix_delimiter))

\* C2: a tool name without the delimiter, or whose prefix is not a registered
\* backend id, is routed to the default backend, and the name forwarded to the
\* default backend is the requested name unchanged.
C2_FallbackRoutedUnchanged ==
    (op = "route_tool_call" /\ ~HasKnownPrefix(req.tool_name)) =>
        /\ target_server = default_server
        /\ WasForwarded =>
              /\ forwarded.server = default_server
              /\ forwarded.tool = req.tool_name

C4_OneEntryPerRegisteredBackend ==
    (op = "list_all_tools" /\ pc = "done") => DOMAIN ret = Servers

Reachable(downstream) ==
    {s \in DOMAIN downstream : downstream[s].response_time_ms # "None"}

\* C5: over one or more checked backends, overall_status is Healthy when every
\* backend answered ping and list_tools, Partial when some but not all did,
\* Unhealthy when none did.
C5_OverallStatusFromReachability ==
    (op = "health_check" /\ pc = "done" /\ DOMAIN ret.downstream_servers # {}) =>
        LET all == DOMAIN ret.downstream_servers
            up == Reachable(ret.downstream_servers)
        IN  ret.summary.overall_status =
                IF up = all THEN <<CheckMark, " Healthy">>
                ELSE IF up # {} THEN <<WarnMark, " Partial">>
                ELSE <<CrossMark, " Unhealthy">>

Decided == orch.pc \in {"call_tool", "done"} /\ orch.reply.kind = "object"

OracleServerInCatalog ==
    /\ "server" \in orch.reply.obj.keys
    /\ IsServerId(orch.reply.obj.server)
    /\ ServerOf(orch.reply.obj.server) \in DOMAIN orch.all_tools

Advertised(tool, entry) ==
    entry.list /\ \E i \in 1..Len(entry.v) : entry.v[i] = tool

IsFallbackDecision(d) ==
    /\ d.server = Str(default_server)
    /\ DGet(d, "arguments", "{}") = "{}"
    /\ default_server \in DOMAIN orch.all_tools
    /\ Advertised(d.tool, orch.all_tools[default_server])

\* C6: when the oracle names a backend of the catalog and an operation that
\* backend does not advertise, the decision executed is the fallback decision
\* and the oracle's operation name is not the one handed on.
C6_UnknownOperationReplaced ==
    (/\ Decided
     /\ "tool" \in orch.reply.obj.keys
     /\ OracleServerInCatalog
     /\ ~Advertised(CleanToolName(orch.reply.obj.tool),
                    orch.all_tools[ServerOf(orch.reply.obj.server)])) =>
        /\ orch.decision.tool # CleanToolName(orch.reply.obj.tool)
        /\ IsFallbackDecision(orch.decision)

\* C7: a decision of the oracle that names a backend id absent from the
\* catalog never reaches the call of the tool.
C7_UnknownBackendRejected ==
    (/\ Decided
     /\ {"server", "tool"} \subseteq orch.reply.obj.keys
     /\ ~OracleServerInCatalog) =>
        /\ orch.pc # "call_tool"
        /\ orch.decision.server # orch.reply.obj.server

EveryBackendFailed(all_tools) ==
    /\ DOMAIN all_tools # {}
    /\ \A s \in DOMAIN all_tools : ~all_tools[s].list

\* C8: when list_all_tools failed for every backend, process_user_request ends
\* in a failure without asking the oracle and without calling a tool.
C8_NoBackendsIsTerminal ==
    (/\ orch.pc = "get_all_tools" \/ orch.llm_calls > 0
     /\ op = "list_all_tools" => pc = "done"
     /\ EveryBackendFailed(IF orch.llm_calls > 0 THEN orch.all_tools ELSE ret)) =>
        /\ orch.llm_calls = 0
        /\ orch.pc # "call_tool"
        /\ ~WasForwarded

\* C9: the backend that receives the call of a decision is the decided
\* backend, and the operation it receives is the decided operation.
C9_DecidedBackendVerbatim ==
    (orch.pc \in {"call_tool", "done"} /\ WasForwarded) =>
        /\ Str(forwarded.server) = orch.decision.server
        /\ forwarded.tool = orch.decision.tool

InAggregate == op \in {"list_all_tools", "health_check"} /\ pc = "loop"

NoAnswer == \E s \in DOMAIN sessions : sessions[s] = "no_answer"

\* C11: when a backend never answers its handshake or its invocation, the
\* wait on it ends all the same: the handler that waits (route_tool_call, or
\* an aggregate such as list_all_tools and health_check) eventually returns.
C11_BoundedWaits ==
    (NoAnswer /\ op \in {"route_tool_call", "list_all_tools", "health_check"})
        ~> (pc = "done")

ProxyTools ==
    {"route_tool_call", "list_all_tools", "get_server_status", "get_methods",
     "health_check"}

\* C12: every backend session opened by route_tool_call, list_all_tools,
\* get_server_status, get_methods or health_check is closed when the operation
\* has its return value, whether the invocation failed or not, and no session
\* is open between operations.
C12_OpenClosePaired ==
    /\ (op \in ProxyTools /\ pc = "done") => DOMAIN sessions = {}
    /\ op = "idle" => DOMAIN sessions = {}

C12_Witness ==
    /\ RouteDone
    /\ outcome = "transport_error"
    /\ WasForwarded
    /\ DOMAIN sessions = {}

\* invocation i is inside "async with actual_client", or about to enter it
InFlight(i) == calls[i].pc \in {"enter", "call"}

\* C13: route_tool_call invocations that overlap, also on the same backend,
\* each use a session of their own: the Client of an invocation is constructed
\* by it, is not the client manager's, is the Client of no other invocation in
\* flight, and an open session has one user.
C13_NoSessionSharing ==
    /\ \A c \in DOMAIN opened : Cardinality(opened[c]) = 1
    /\ \A i, j \in Callers :
          (i # j /\ InFlight(i) /\ InFlight(j)) =>
              calls[i].actual_client # calls[j].actual_client
    /\ \A i \in Callers : InFlight(i) =>
          /\ calls[i].actual_client > Len(ServerOrder)
          /\ calls[i].pc = "call" => opened[calls[i].actual_client] = {i}

C13_Witness ==
    \E i, j \in Callers :
        /\ i # j
        /\ calls[i].pc = "call"
        /\ calls[j].pc = "call"
        /\ calls[i].target_server = calls[j].target_server
        /\ Cardinality(DOMAIN opened) = 2

\* C14: the failure result of route_tool_call tells the caller which kind of
\* failure it was: the result of a handshake failure, of a transport failure
\* and of an error reported by the tool are never the same value, and the
\* tool's error does not come in the form of the unreachable backend.
C14_DistinctErrorKinds ==
    (RouteDone /\ outcome \in {"launch_error", "transport_error", "tool_error"}) =>
        \A e \in CallErrors :
            e.kind # outcome =>
                /\ ret # ExceptResult(req.tool_name, target_server, e)
                /\ outcome = "tool_error" =>
                      DOMAIN ret # DOMAIN ExceptResult(req.tool_name, target_server, e)

\* C15: the backend the router returns for a request, a configured server or
\* the default server, has a client in the client manager, and the request is
\* not answered with "No client available".
C15_RouterTargetsHaveClients ==
    op = "route_tool_call" =>
        /\ target_server \in Servers \cup {default_server}
        /\ get_client(target_server)
        /\ outcome # "no_client"
        /\ pc = "done" => ret # NoClientResult(target_server)

\* C16: the strategy route_tool_call applies is the routing_strategy of the
\* proxy configuration: with "header" the request goes where the hint says,
\* with "prefix" where the prefix of the tool name says. (Stated for the
\* configurations in which PROXY_CONFIG is the only place that names a
\* routing_strategy, as in config.py.)
C16_StrategyFromProxyConfig ==
    (op = "route_tool_call" /\ "routing_strategy" \notin DOMAIN ROUTING_CONFIG) =>
        /\ PROXY_CONFIG.routing_strategy = "header" =>
              target_server = route_by_header(req.headers)
        /\ PROXY_CONFIG.routing_strategy = "prefix" =>
              target_server = route_by_prefix_router(req.tool_name)

\* the values the request gives for the hint header
Hints(headers) ==
    IF headers.none THEN {}
    ELSE {kv[2] : kv \in {x \in headers.items : x[1] = header_name}}

\* C17: under the header strategy, a hint that names a configured backend
\* routes to that backend whatever the tool name is; no headers, an empty
\* headers mapping, headers without the hint and a hint that names no
\* configured backend route to the default backend.
C17_HeaderStrategy ==
    (op = "route_tool_call" /\ Router_strategy = "header") =>
        IF \E v \in Hints(req.headers) : IsServerId(v)
        THEN \E v \in Hints(req.headers) : target_server = ServerOf(v)
        ELSE target_server = default_server

C17_Witness ==
    /\ RouteDone
    /\ Router_strategy = "header"
    /\ Hints(req.headers) = {<<"github">>}
    /\ StartsWith(req.tool_name, <<"filesystem", "_">>)
    /\ forwarded.server = "github"

\* C18: route_by_prefix(p, s, args) for a configured backend p calls backend p
\* with the operation name s: the name the backend receives has no "p_" in
\* front, as when route_tool_call forwards "p_s". (Stated where the configured
\* delimiter is the "_" that route_by_prefix composes the name with.)
C18_NativeNamesOnly ==
    (/\ op = "route_by_prefix"
     /\ prefix_delimiter = <<"_">>
     /\ IsServerId(req.tool_prefix)
     /\ WasForwarded) =>
        /\ forwarded.server = ServerOf(req.tool_prefix)
        /\ forwarded.tool = req.tool_suffix
        /\ forwarded.tool = StripServerPrefix(req.tool_name, target_server)

\* C19: whatever the completion service replies (an exception, text that is
\* not JSON, JSON that is not an object, an object without server or tool),
\* the service is asked at most once for a request, and the decision that is
\* invoked has been checked against the catalog: its backend is in the
\* catalog and advertises its tool.
C19_ReplyCheckedBeforeUse ==
    /\ orch.llm_calls <= 1
    /\ orch.pc = "call_tool" =>
          /\ orch.llm_calls = 1
          /\ IsServerId(orch.decision.server)
          /\ ServerOf(orch.decision.server) \in DOMAIN orch.all_tools
          /\ Advertised(orch.decision.tool,
                        orch.all_tools[ServerOf(orch.decision.server)])

\* C20: get_target_server, for a path whose first segment (the text before the
\* first "/" of the path without its leading and trailing "/") is a key of
\* the configured servers, returns the target configured for that key and the
\* rest of the path after that segment and its "/"; for any other path it
\* raises HTTP 404, which is the response, and nothing is forwarded.
C20_PathResolution ==
    (mcp.pc # "idle" /\ Validates(mcp.json)) =>
        LET stripped == Strip(mcp.path, "/")
            first == SplitFirst(stripped, <<"/">>)
        IN  IF IsServerKey(first)
            THEN /\ mcp.target.raised = 0
                 /\ mcp.target.server_url = MCP_SERVERS[first[1]]
                 /\ IF Contains(stripped, <<"/">>)
                    THEN stripped = first \o <<"/">> \o mcp.target.remaining_path
                    ELSE mcp.target.remaining_path = <<>>
                 /\ mcp.status # 404
            ELSE /\ mcp.target.raised = 404
                 /\ mcp.pc = "done"
                 /\ mcp.status = 404
                 /\ ~mcp.forwarded

C20_Witness ==
    /\ mcp.pc = "done"
    /\ mcp.forwarded
    /\ Head(mcp.path) = "/"
    /\ mcp.target.server_url = "http://localhost:8002"
    /\ mcp.target.remaining_path = <<"test">>

\* C21: forward_request never raises: whenever the try block fails (the
\* filesystem server cannot be started, no response line, connection
\* refused, HTTP error, any other exception) the value returned is an error
\* object; its code is UNKNOWN_ERROR for an exception that is neither a
\* connection error nor an HTTP error, SERVER_UNAVAILABLE for a connection
\* error, and SERVER_ERROR for an error object the backend answered.
C21_ForwardNeverRaises ==
    (mcp.pc = "done" /\ mcp.forwarded) =>
        LET e == Raised(mcp.outcome)
        IN  /\ mcp.status = 200
            /\ e # "none" =>
                 mcp.body \in {"SERVER_UNAVAILABLE", "HTTP_ERROR", "UNKNOWN_ERROR"}
            /\ e \notin {"none", "ConnectError", "HTTPError"} =>
                 mcp.body = "UNKNOWN_ERROR"
            /\ e = "ConnectError" => mcp.body = "SERVER_UNAVAILABLE"
            /\ mcp.outcome = "error_object" => mcp.body = "SERVER_ERROR"

C21_Witness ==
    /\ mcp.pc = "done"
    /\ mcp.forwarded
    /\ mcp.outcome = "launch_failed"
    /\ mcp.body = "UNKNOWN_ERROR"

\* C23: a request the agent sends for server s and method m is resolved to
\* backend s and answered successfully when s is a configured backend, and
\* is answered 404 only when s is not configured.
C23_AgentPathResolved ==
    (mcp.pc = "done" /\ mcp.agent # NoMcpRequest) =>
        IF mcp.agent.server \in DOMAIN MCP_SERVERS
        THEN /\ mcp.forwarded
             /\ mcp.target.server_url = MCP_SERVERS[mcp.agent.server]
             /\ mcp.status = 200
        ELSE mcp.status = 404

\* C22: every request issued to the proxy endpoint completes with its own
\* response, a result or an error; none blocks forever.
C22_EveryRequestCompletes ==
    \A i \in Requests : (px.reqs[i].pc # "idle") ~> (px.reqs[i].pc = "done")

\* C28: each caller of the stdio backend receives the response line that
\* answers its own request: between the write of a request and the read of
\* its response no other request writes or reads on the pipe.
C28_OwnResponseLine ==
    /\ \A i \in Requests : px.reqs[i].line # 0 => px.reqs[i].line = i
    /\ Cardinality({i \in Requests : px.reqs[i].pc \in {"write", "read"}}) <= 1
    /\ Len(px.stdin) + Len(px.stdout) <= 1

C28_Witness ==
    \A i \in Requests : px.reqs[i].pc = "done" /\ px.reqs[i].line = i

C24_ResponseComplete ==
    (agent.op = "process_message" /\ agent.pc = "done") =>
        /\ {"user_query", "synthesized_answer", "sources"} \subseteq DOMAIN agent.response
        /\ agent.response.user_query = agent.user_query

C24_Witness ==
    /\ agent.op = "process_message"
    /\ agent.pc = "done"
    /\ agent.mcp_request # NoMcpRequest
    /\ ~agent.mcp_result.success
    /\ agent.rag_system # "None"
    /\ agent.endings = <<"raises">>
    /\ agent.response.sources = <<>>

\* C26: health_check of the agent reports "healthy" exactly when the MCP
\* proxy component and the RAG component are both healthy; otherwise it
\* reports "degraded" and unhealthy_components lists exactly the components
\* whose status is not healthy; it returns also when the proxy is unreachable
\* or the RAG system is not initialised.
C26_AgentHealthDerivation ==
    (agent.op = "health_check" /\ agent.pc = "done") =>
        LET r == agent.response
            unhealthy == {name \in DOMAIN r.components : r.components[name] # "healthy"}
        IN  /\ DOMAIN r.components = {"mcp_proxy", "rag_system"}
            /\ r.components.mcp_proxy = "healthy" => agent.endings[1] = "200"
            /\ r.components.rag_system = "healthy" => agent.rag_system # "None"
            /\ IF unhealthy = {}
               THEN r.agent_status = "healthy"
               ELSE /\ r.agent_status = "degraded"
                    /\ {r.unhealthy_components[k] :
                          k \in 1..Len(r.unhealthy_components)} = unhealthy

C26_Witness ==
    /\ agent.op = "health_check"
    /\ agent.pc = "done"
    /\ agent.endings[1] = "raises"
    /\ agent.rag_system = "None"
    /\ agent.response.agent_status = "degraded"
    /\ Len(agent.response.unhealthy_components) = 2

\* C25: in health_check, healthy_servers equals the number of backends whose
\* ping and list_tools both succeeded in this call, whatever text the error
\* message of a failed backend contains.
C25_HealthyCountFromOutcomes ==
    (op = "health_check" /\ pc = "done") =>
        ret.summary.healthy_servers = Cardinality(Reachable(ret.downstream_servers))

\* C27: the server ask_llm_to_choose_server returns is always one of the
\* available_servers it was given, whatever the model replies and also when
\* the completion raises; so process_user_request neither asks for the tools
\* of, nor invokes, a server that discovery reported unavailable.
C27_ChosenServerAvailable ==
    LET available == {llm.available_servers[k] : k \in 1..Len(llm.available_servers)}
    IN  llm.op = "process_user_request" =>
            /\ llm.chosen_server # "none" => llm.chosen_server \in available
            /\ llm.asked \subseteq available
            /\ llm.invoked \subseteq available

\* C30: the health summary is self-consistent for every number of backends,
\* zero included: computing it never raises, overall_status is Healthy
\* exactly when health_percentage is 100, and with no backend the overall
\* status is not Healthy.
C30_HealthSummaryConsistent ==
    /\ (op = "health_check" /\ pc = "done") =>
          /\ ret.summary.overall_status = <<CheckMark, " Healthy">>
                <=> ret.summary.health_percentage = 1000
          /\ ret.summary.total_servers = 0
                => ret.summary.overall_status # <<CheckMark, " Healthy">>
    /\ (llm.op = "health_check" /\ llm.pc = "done") => llm.result.raised = "none"

====
